---------------------------- MODULE Spec2Model ----------------------------
(***************************************************************************)
(* Weigence automatic inventory: weight-to-count resolution.               *)
(*                                                                         *)
(* Three state machines share this module:                                 *)
(*   SpecSingle  calculateFabricObjectCount as a pure function of          *)
(*               (reading, unit weight, tolerance multiplier);             *)
(*   Spec        the verification policy of AutomaticInventory.ino:        *)
(*               loop() = handleTareButton(); processScaleReading();       *)
(*   SpecDual    the body of loop() of Magazzino.ino with its two-class    *)
(*               combination search.                                       *)
(*                                                                         *)
(* Readings are the values scale.get_units() returns converted to long.    *)
(* The HX711 delivers 24-bit samples and the sketches divide by 366, so a  *)
(* reading never leaves +-45840: 32-bit int/long arithmetic cannot         *)
(* overflow there, and the float quotient reading/weight is far more       *)
(* accurate than the distance of any non-half quotient from .5, so round() *)
(* sees the exact quotient.  Integers are therefore unbounded here.        *)
(***************************************************************************)
EXTENDS Integers, Sequences, FiniteSets

\* ------------------------------------------------------------- constants
WEIGHT_OF_FABRIC_OBJ == 70
WEIGHT_OF_REUSED_OBJ == 85
EPSILON == 3
READING_INTERVAL == 200
TARE_DELAY == 5000

\* ---------------------------------------------------------------- bounds
\* Readings range over -MaxNegative .. MaxReading.
MaxReading == 150
MaxNegative == 75
\* Unit weights and tolerance multipliers tried by SpecSingle, in addition
\* to the sketch's own 70.
MaxUnitWeight == 8
MaxTolerance == 3
\* Readings of SpecDual range over -MaxNegative .. MaxDualReading, plus the
\* scenario reading 1000000 (beyond what the sensor delivers, well inside a
\* 32-bit int).
MaxDualReading == 430
\* SpecTick follows the clock for MaxElapsed milliseconds; one of its runs
\* starts MaxWrapLead milliseconds before the counter wraps; MaxStep is one
\* of the amounts of time that pass between two calls of loop().
MaxElapsed == 500
MaxWrapLead == 250
MaxStep == 60

Readings == (0 - MaxNegative)..MaxReading
UnitWeights == (1..MaxUnitWeight) \cup {WEIGHT_OF_FABRIC_OBJ}
Tolerances == 0..MaxTolerance
DualReadings == ((0 - MaxNegative)..MaxDualReading) \cup {1000000}

VARIABLES
  \* SpecSingle
  s_pc,          \* "call" before calculateFabricObjectCount, "return" after
  s_in,          \* [reading, w, t]
  s_out,         \* [valid, count_fabric]
  \* Spec (AutomaticInventory.ino)
  pc,            \* next statement of loop(): "handleTareButton" or "processScaleReading"
  isBuzzerOn,    \* the sketch's flag
  buzzerTone,    \* TRUE while the buzzer pin emits a tone
  pinCall,       \* call made on the buzzer pin by the last step: "tone", "noTone", "none"
  lcd,           \* what the display shows
  samples,       \* values returned by scale.get_units() in the current tick
  resolved,      \* readings handed to calculateFabricObjectCount in the current tick
  outcome,       \* how the current tick's cycle ended
  tares,         \* scale.tare() calls of the current tick: subset of {"manual","auto"}
  tickStartFlag, \* isBuzzerOn as it was when the current tick began
  \* SpecDual (Magazzino.ino)
  mz_pc,         \* next part of loop(): "button" or "scale"
  mz_ready,      \* scale.is_ready() of the current tick
  mz_reading,    \* reading of the current tick (0 while none was taken)
  mz_search,     \* what the combination search of the current tick left behind
  mz_lcd,        \* digits shown after "Factory: " and after "Reused:  "
  mz_tares,      \* scale.tare() calls of the current tick
  mz_wrote,      \* TRUE when the current tick printed counts
  mz_lcdStart,   \* what the display showed when the current tick started
  \* SpecTick (loop() of AutomaticInventory.ino)
  millis,        \* the 32-bit millisecond counter, as two 16-bit halves
  lastReading,   \* the sketch's uint32_t, as two 16-bit halves
  previousReading, \* lastReading before the latest cycle start
  now,           \* milliseconds since the first state (not wrapped)
  sinceStart,    \* milliseconds since lastReading was recorded (not wrapped)
  gap,           \* milliseconds between the latest two recordings (not wrapped)
  cycles         \* cycles begun by the latest call of loop()

singleVars == <<s_pc, s_in, s_out>>
cycleVars ==
  <<pc, isBuzzerOn, buzzerTone, pinCall, lcd, samples, resolved, outcome, tares, tickStartFlag>>
dualVars ==
  <<mz_pc, mz_ready, mz_reading, mz_search, mz_lcd, mz_tares, mz_wrote, mz_lcdStart>>
tickVars == <<millis, lastReading, previousReading, now, sinceStart, gap, cycles>>
vars == <<singleVars, cycleVars, dualVars, tickVars>>

\* ---------------------------------------------------------- C arithmetic
\* abs() of Arduino.h
abs(x) == IF x >= 0 THEN x ELSE 0 - x

\* (variant: halves rounded toward zero)
round_quotient_half_down(reading, w) ==
  LET a == abs(reading)
      whole == a \div w
      frac == a % w
      mag == IF 2 * frac > w THEN whole + 1 ELSE whole
  IN IF reading >= 0 THEN mag ELSE 0 - mag

\* round((float)reading / w): nearest integer, halves away from zero
round_quotient(reading, w) ==
  LET a == abs(reading)
      whole == a \div w
      frac == a % w
      mag == IF 2 * frac >= w THEN whole + 1 ELSE whole
  IN IF reading >= 0 THEN mag ELSE 0 - mag

\* ---------------------------------------------- single-class resolution
\* (variant: tolerance not scaled by the count)
calculate_unscaled_tolerance(reading, w, t) ==
  LET count_fabric == round_quotient(reading, w)
      expectedWeight == count_fabric * w
      delta == abs(reading - expectedWeight)
  IN [valid |-> delta <= t, count_fabric |-> count_fabric]

\* (variant: strict comparison)
calculate_strict_comparison(reading, w, t) ==
  LET count_fabric == round_quotient(reading, w)
      expectedWeight == count_fabric * w
      delta == abs(reading - expectedWeight)
  IN [valid |-> delta < t * count_fabric, count_fabric |-> count_fabric]

calculateFabricObjectCount(reading, w, t) ==
  LET count_fabric == round_quotient(reading, w)
      expectedWeight == count_fabric * w
      delta == abs(reading - expectedWeight)
  IN [valid |-> delta <= t * count_fabric, count_fabric |-> count_fabric]

NoResult == [valid |-> FALSE, count_fabric |-> 0]

\* --------------------------------------------------- idle values of Spec
CycleIdle ==
  /\ pc = "handleTareButton"
  /\ isBuzzerOn = FALSE
  /\ buzzerTone = FALSE
  /\ pinCall = "noTone"
  /\ lcd = [kind |-> "clear", count |-> 0]
  /\ samples = <<>>
  /\ resolved = <<>>
  /\ outcome = "Idle"
  /\ tares = {}
  /\ tickStartFlag = FALSE

SingleIdle ==
  /\ s_pc = "return"
  /\ s_in = [reading |-> 0, w |-> WEIGHT_OF_FABRIC_OBJ, t |-> EPSILON]
  /\ s_out = NoResult

\* int count_fabric = -1; int count_reused = -1; bool found = false;
\* outer / inner count the iterations of the two loops (inner: the most
\* candidate checks made within one outer iteration).
NotFound ==
  [found |-> FALSE, count_fabric |-> 0 - 1, count_reused |-> 0 - 1,
   outer |-> 0, inner |-> 0]
MzLcdClear == [factory |-> <<>>, reused |-> <<>>]

DualIdle ==
  /\ mz_pc = "button"
  /\ mz_ready = FALSE
  /\ mz_reading = 0
  /\ mz_search = NotFound
  /\ mz_lcd = MzLcdClear
  /\ mz_tares = {}
  /\ mz_wrote = FALSE
  /\ mz_lcdStart = MzLcdClear

\* -------------------------------------------------- 32-bit unsigned time
\* A uint32_t is kept as [hi, lo], value hi * 2^16 + lo, so that the
\* arithmetic modulo 2^32 is carried out within the checker's integers.
Half == 2 ^ 16
u32(hi, lo) == [hi |-> hi, lo |-> lo]

\* a + d modulo 2^32, for 0 <= d < 2^16
u32_add(a, d) ==
  LET lo == a.lo + d
  IN u32((a.hi + lo \div Half) % Half, lo % Half)

\* a - b modulo 2^32
u32_sub(a, b) ==
  LET lo == a.lo - b.lo
      borrow == IF lo < 0 THEN 1 ELSE 0
  IN u32((a.hi - b.hi - borrow) % Half, lo % Half)

\* a >= b, both unsigned
u32_geq(a, b) == a.hi > b.hi \/ (a.hi = b.hi /\ a.lo >= b.lo)

\* lastReading = millis() at the end of setup(), which has waited
\* TARE_DELAY before taring.
TickIdle ==
  /\ millis = u32(0, TARE_DELAY)
  /\ lastReading = u32(0, TARE_DELAY)
  /\ previousReading = u32(0, TARE_DELAY)
  /\ now = 0
  /\ sinceStart = 0
  /\ gap = 0
  /\ cycles = 0

\* ------------------------------------------------------------ SpecSingle
InitSingle ==
  /\ s_pc = "call"
  /\ s_in \in [reading : Readings, w : UnitWeights, t : Tolerances]
  /\ s_out = NoResult
  /\ CycleIdle
  /\ DualIdle
  /\ TickIdle

ResolveSingle ==
  /\ s_pc = "call"
  /\ s_pc' = "return"
  /\ s_out' = calculateFabricObjectCount(s_in.reading, s_in.w, s_in.t)
  /\ UNCHANGED <<s_in, cycleVars, dualVars, tickVars>>

NextSingle == ResolveSingle

SpecSingle == InitSingle /\ [][NextSingle]_vars

\* ------------------------------------------ Spec: AutomaticInventory.ino
\* Buzzer: tone()/noTone() on the pin together with the flag.
\* (variant: tone() issued without looking at the flag)
activateBuzzer_unguarded ==
  buzzerTone' = TRUE /\ isBuzzerOn' = TRUE /\ pinCall' = "tone"

activateBuzzer ==
  IF ~isBuzzerOn
  THEN buzzerTone' = TRUE /\ isBuzzerOn' = TRUE /\ pinCall' = "tone"
  ELSE pinCall' = "none" /\ UNCHANGED <<buzzerTone, isBuzzerOn>>

deactivateBuzzer ==
  IF isBuzzerOn
  THEN buzzerTone' = FALSE /\ isBuzzerOn' = FALSE /\ pinCall' = "noTone"
  ELSE pinCall' = "none" /\ UNCHANGED <<buzzerTone, isBuzzerOn>>

\* A path that calls neither activateBuzzer() nor deactivateBuzzer().
BuzzerUntouched == pinCall' = "none" /\ UNCHANGED <<buzzerTone, isBuzzerOn>>

\* Display: each routine starts with lcd.clear(); the two tare messages are
\* shown for delay(500) and cleared again before the routine returns.
LcdClear == [kind |-> "clear", count |-> 0]
displayFabricCount(count_fabric) == lcd' = [kind |-> "count", count |-> count_fabric]
displayError == lcd' = [kind |-> "error", count |-> 0]
displayTareComplete == lcd' = LcdClear
displayAutoTare == lcd' = LcdClear

\* (variant: the manual tare leaves the buzzer alone)
handleTareButton_keeps_buzzer ==
  /\ pc = "handleTareButton"
  /\ pc' = "processScaleReading"
  /\ samples' = <<>>
  /\ resolved' = <<>>
  /\ outcome' = "Idle"
  /\ tickStartFlag' = isBuzzerOn
  /\ BuzzerUntouched
  /\ \E pressed \in BOOLEAN :
       IF pressed
       THEN tares' = {"manual"} /\ displayTareComplete
       ELSE tares' = {} /\ UNCHANGED lcd
  /\ UNCHANGED <<singleVars, dualVars, tickVars>>

\* handleTareButton(): the first statement of a tick.  pressed is
\* digitalRead(TARE_BUTTON_PIN) == HIGH.  The per-tick history starts here.
handleTareButton ==
  /\ pc = "handleTareButton"
  /\ pc' = "processScaleReading"
  /\ samples' = <<>>
  /\ resolved' = <<>>
  /\ outcome' = "Idle"
  /\ tickStartFlag' = isBuzzerOn
  /\ \E pressed \in BOOLEAN :
       IF pressed
       THEN /\ tares' = {"manual"}
            /\ displayTareComplete
            /\ deactivateBuzzer
       ELSE /\ tares' = {}
            /\ BuzzerUntouched
            /\ UNCHANGED lcd
  /\ UNCHANGED <<singleVars, dualVars, tickVars>>

\* (variant: the not-ready return also silences the buzzer)
ProcessUnavailable_silences ==
  /\ outcome' = "Unavailable"
  /\ deactivateBuzzer
  /\ UNCHANGED <<samples, resolved, tares, lcd>>

\* (variant: the not-ready return clears the display)
ProcessUnavailable_clears ==
  /\ outcome' = "Unavailable"
  /\ BuzzerUntouched
  /\ lcd' = LcdClear
  /\ UNCHANGED <<samples, resolved, tares>>

\* if (!scale.is_ready()) return;
ProcessUnavailable ==
  /\ outcome' = "Unavailable"
  /\ BuzzerUntouched
  /\ UNCHANGED <<samples, resolved, tares, lcd>>

\* (variant: the automatic tare leaves the buzzer alone)
ProcessNegative_keeps_buzzer(reading) ==
  /\ samples' = <<reading>>
  /\ resolved' = <<>>
  /\ tares' = tares \cup {"auto"}
  /\ displayAutoTare
  /\ BuzzerUntouched
  /\ outcome' = "NegativeReading"

\* if (reading < 0) { scale.tare(); displayAutoTare(); deactivateBuzzer(); return; }
ProcessNegative(reading) ==
  /\ samples' = <<reading>>
  /\ resolved' = <<>>
  /\ tares' = tares \cup {"auto"}
  /\ displayAutoTare
  /\ deactivateBuzzer
  /\ outcome' = "NegativeReading"

\* First check passed.
ProcessFirstAccepted(reading, count_fabric) ==
  /\ samples' = <<reading>>
  /\ resolved' = <<reading>>
  /\ displayFabricCount(count_fabric)
  /\ deactivateBuzzer
  /\ outcome' = "Accepted"
  /\ UNCHANGED tares

\* (variant: the verification resolves the first reading again)
ProcessVerification_stale(first, reading) ==
  LET second == calculateFabricObjectCount(first, WEIGHT_OF_FABRIC_OBJ, EPSILON)
  IN /\ samples' = <<first, reading>>
     /\ resolved' = <<first, first>>
     /\ UNCHANGED tares
     /\ IF second.valid
        THEN /\ displayFabricCount(second.count_fabric)
             /\ deactivateBuzzer
             /\ outcome' = "Accepted"
        ELSE /\ displayError
             /\ activateBuzzer
             /\ outcome' = "ConfirmedFailure"

\* (variant: the count of the first reading is displayed after verification)
ProcessVerification_first_count(first, reading) ==
  LET second == calculateFabricObjectCount(reading, WEIGHT_OF_FABRIC_OBJ, EPSILON)
      stale == calculateFabricObjectCount(first, WEIGHT_OF_FABRIC_OBJ, EPSILON)
  IN /\ samples' = <<first, reading>>
     /\ resolved' = <<first, reading>>
     /\ UNCHANGED tares
     /\ IF second.valid
        THEN /\ displayFabricCount(stale.count_fabric)
             /\ deactivateBuzzer
             /\ outcome' = "Accepted"
        ELSE /\ displayError
             /\ activateBuzzer
             /\ outcome' = "ConfirmedFailure"

\* else-branch of the first check: reading is the value of the second
\* scale.get_units() call, first the value of the first one.
ProcessVerification(first, reading) ==
  LET second == calculateFabricObjectCount(reading, WEIGHT_OF_FABRIC_OBJ, EPSILON)
  IN /\ samples' = <<first, reading>>
     /\ resolved' = <<first, reading>>
     /\ UNCHANGED tares
     /\ IF second.valid
        THEN /\ displayFabricCount(second.count_fabric)
             /\ deactivateBuzzer
             /\ outcome' = "Accepted"
        ELSE /\ displayError
             /\ activateBuzzer
             /\ outcome' = "ConfirmedFailure"

\* processScaleReading(): ready is scale.is_ready(), the readings are what
\* scale.get_units(SCALE_READINGS) returns at each call.
processScaleReading ==
  /\ pc = "processScaleReading"
  /\ pc' = "handleTareButton"
  /\ \E ready \in BOOLEAN :
       IF ~ready
       THEN ProcessUnavailable
       ELSE \E reading \in Readings :
              IF reading < 0
              THEN ProcessNegative(reading)
              ELSE LET first == calculateFabricObjectCount(
                                  reading, WEIGHT_OF_FABRIC_OBJ, EPSILON)
                   IN IF first.valid
                      THEN ProcessFirstAccepted(reading, first.count_fabric)
                      ELSE \E verification \in Readings :
                             ProcessVerification(reading, verification)
  /\ UNCHANGED <<tickStartFlag, singleVars, dualVars, tickVars>>

Init == CycleIdle /\ SingleIdle /\ DualIdle /\ TickIdle

Next == handleTareButton \/ processScaleReading

Spec == Init /\ [][Next]_vars

\* ---------------------------------------------- SpecDual: Magazzino.ino
\* C integer division truncates toward zero.
c_div(a, b) == IF a >= 0 THEN a \div b ELSE 0 - ((0 - a) \div b)
max(a, b) == IF a >= b THEN a ELSE b

\* (variant: only the negative half of the window, delta <= 0)
RECURSIVE innerLoop_lower_half(_, _)
innerLoop_lower_half(remainder, delta) ==
  IF delta > 0
  THEN [found |-> FALSE, count_reused |-> 0 - 1, checks |-> 0]
  ELSE LET adjusted_remainder == remainder + delta
       IN IF adjusted_remainder >= 0
             /\ adjusted_remainder % WEIGHT_OF_REUSED_OBJ = 0
          THEN [found |-> TRUE,
                count_reused |-> adjusted_remainder \div WEIGHT_OF_REUSED_OBJ,
                checks |-> 1]
          ELSE LET rest == innerLoop_lower_half(remainder, delta + 1)
               IN [rest EXCEPT !.checks = @ + 1]

\* (variant: count_reused divided by the wrong unit weight)
RECURSIVE innerLoop_wrong_divisor(_, _)
innerLoop_wrong_divisor(remainder, delta) ==
  IF delta > EPSILON
  THEN [found |-> FALSE, count_reused |-> 0 - 1, checks |-> 0]
  ELSE LET adjusted_remainder == remainder + delta
       IN IF adjusted_remainder >= 0
             /\ adjusted_remainder % WEIGHT_OF_REUSED_OBJ = 0
          THEN [found |-> TRUE,
                count_reused |-> adjusted_remainder \div WEIGHT_OF_FABRIC_OBJ,
                checks |-> 1]
          ELSE LET rest == innerLoop_wrong_divisor(remainder, delta + 1)
               IN [rest EXCEPT !.checks = @ + 1]

\* (variant: the window runs one step further, delta <= EPSILON + 1)
RECURSIVE innerLoop_one_more(_, _)
innerLoop_one_more(remainder, delta) ==
  IF delta > EPSILON + 1
  THEN [found |-> FALSE, count_reused |-> 0 - 1, checks |-> 0]
  ELSE LET adjusted_remainder == remainder + delta
       IN IF adjusted_remainder >= 0
             /\ adjusted_remainder % WEIGHT_OF_REUSED_OBJ = 0
          THEN [found |-> TRUE,
                count_reused |-> adjusted_remainder \div WEIGHT_OF_REUSED_OBJ,
                checks |-> 1]
          ELSE LET rest == innerLoop_one_more(remainder, delta + 1)
               IN [rest EXCEPT !.checks = @ + 1]

\* for (int delta = -EPSILON; delta <= EPSILON; delta++) { ... break; }
RECURSIVE innerLoop(_, _)
innerLoop(remainder, delta) ==
  IF delta > EPSILON
  THEN [found |-> FALSE, count_reused |-> 0 - 1, checks |-> 0]
  ELSE LET adjusted_remainder == remainder + delta
       IN IF adjusted_remainder >= 0
             /\ adjusted_remainder % WEIGHT_OF_REUSED_OBJ = 0
          THEN [found |-> TRUE,
                count_reused |-> adjusted_remainder \div WEIGHT_OF_REUSED_OBJ,
                checks |-> 1]
          ELSE LET rest == innerLoop(remainder, delta + 1)
               IN [rest EXCEPT !.checks = @ + 1]

\* (variant: the outer loop runs downward from reading / WEIGHT_OF_FABRIC_OBJ;
\* m counts the iterations already made)
RECURSIVE outerLoop_descending(_, _)
outerLoop_descending(reading, m) ==
  LET k == c_div(reading, WEIGHT_OF_FABRIC_OBJ) - m
  IN IF k < 0
     THEN NotFound
     ELSE LET remainder == reading - k * WEIGHT_OF_FABRIC_OBJ
              in == innerLoop(remainder, 0 - EPSILON)
          IN IF in.found
             THEN [found |-> TRUE, count_fabric |-> k,
                   count_reused |-> in.count_reused,
                   outer |-> 1, inner |-> in.checks]
             ELSE LET rest == outerLoop_descending(reading, m + 1)
                  IN [rest EXCEPT !.outer = @ + 1, !.inner = max(@, in.checks)]

\* for (int m = 0; m <= reading / WEIGHT_OF_FABRIC_OBJ; m++) { ... if (found) break; }
RECURSIVE outerLoop(_, _)
outerLoop(reading, m) ==
  IF m > c_div(reading, WEIGHT_OF_FABRIC_OBJ)
  THEN NotFound
  ELSE LET remainder == reading - m * WEIGHT_OF_FABRIC_OBJ
           in == innerLoop(remainder, 0 - EPSILON)
       IN IF in.found
          THEN [found |-> TRUE, count_fabric |-> m,
                count_reused |-> in.count_reused,
                outer |-> 1, inner |-> in.checks]
          ELSE LET rest == outerLoop(reading, m + 1)
               IN [rest EXCEPT !.outer = @ + 1, !.inner = max(@, in.checks)]

\* lcd.print(int) at a fixed column: the decimal digits, most significant
\* first, overwrite what is there; characters to the right of them stay.
RECURSIVE Digits(_)
Digits(n) == IF n < 10 THEN <<n>> ELSE Append(Digits(n \div 10), n % 10)
Overwrite(old, new) == new \o SubSeq(old, Len(new) + 1, Len(old))

\* loop() of Magazzino.ino once the 20 ms interval has elapsed, first part:
\* the tare button.  The per-tick history starts here.
mzTareButton ==
  /\ mz_pc = "button"
  /\ mz_pc' = "scale"
  /\ mz_ready' = FALSE
  /\ mz_reading' = 0
  /\ mz_search' = NotFound
  /\ mz_wrote' = FALSE
  /\ mz_lcdStart' = mz_lcd
  /\ \E pressed \in BOOLEAN :
       IF pressed
       THEN mz_tares' = {"manual"} /\ mz_lcd' = MzLcdClear
       ELSE mz_tares' = {} /\ UNCHANGED mz_lcd
  /\ UNCHANGED <<singleVars, cycleVars, tickVars>>

\* (variant: a search without a match clears the display)
mzScale_clears_on_miss ==
  /\ mz_pc = "scale"
  /\ mz_pc' = "button"
  /\ \E ready \in BOOLEAN :
       /\ mz_ready' = ready
       /\ IF ~ready
          THEN UNCHANGED <<mz_reading, mz_search, mz_lcd, mz_tares, mz_wrote>>
          ELSE \E reading \in DualReadings :
                 LET afterNegative == IF reading < 0 THEN MzLcdClear ELSE mz_lcd
                     search == outerLoop(reading, 0)
                     show == search.count_fabric >= 0 /\ search.count_reused >= 0
                 IN /\ mz_reading' = reading
                    /\ mz_search' = search
                    /\ mz_tares' = mz_tares \cup (IF reading < 0 THEN {"auto"} ELSE {})
                    /\ mz_wrote' = show
                    /\ mz_lcd' =
                         IF show
                         THEN [factory |-> Overwrite(afterNegative.factory,
                                                     Digits(search.count_fabric)),
                               reused |-> Overwrite(afterNegative.reused,
                                                    Digits(search.count_reused))]
                         ELSE MzLcdClear
  /\ UNCHANGED <<mz_lcdStart, singleVars, cycleVars, tickVars>>

\* Second part: if (scale.is_ready()) { read, auto-tare, search, display }.
mzScale ==
  /\ mz_pc = "scale"
  /\ mz_pc' = "button"
  /\ \E ready \in BOOLEAN :
       /\ mz_ready' = ready
       /\ IF ~ready
          THEN UNCHANGED <<mz_reading, mz_search, mz_lcd, mz_tares, mz_wrote>>
          ELSE \E reading \in DualReadings :
                 LET afterNegative == IF reading < 0 THEN MzLcdClear ELSE mz_lcd
                     search == outerLoop(reading, 0)
                     show == search.count_fabric >= 0 /\ search.count_reused >= 0
                 IN /\ mz_reading' = reading
                    /\ mz_search' = search
                    /\ mz_tares' = mz_tares \cup (IF reading < 0 THEN {"auto"} ELSE {})
                    /\ mz_wrote' = show
                    /\ mz_lcd' =
                         IF show
                         THEN [factory |-> Overwrite(afterNegative.factory,
                                                     Digits(search.count_fabric)),
                               reused |-> Overwrite(afterNegative.reused,
                                                    Digits(search.count_reused))]
                         ELSE afterNegative
  /\ UNCHANGED <<mz_lcdStart, singleVars, cycleVars, tickVars>>

InitDual == CycleIdle /\ SingleIdle /\ DualIdle /\ TickIdle

NextDual == mzTareButton \/ mzScale

SpecDual == InitDual /\ [][NextDual]_vars

\* ------------------------------------- SpecBoth: either of the sketches
\* The board runs one sketch: the machine of the other one stays idle.
InitBoth == CycleIdle /\ SingleIdle /\ DualIdle /\ TickIdle

NextBoth == (DualIdle /\ Next) \/ (CycleIdle /\ NextDual)

SpecBoth == InitBoth /\ [][NextBoth]_vars

\* ------------------------ SpecTick: the gate of loop(), AutomaticInventory.ino
\* (variant: the gate compares millis() with a wrapped deadline)
intervalElapsed_deadline(m, last) ==
  u32_geq(m, u32_add(last, READING_INTERVAL))

\* millis() - lastReading >= READING_INTERVAL, in unsigned 32-bit arithmetic
intervalElapsed(m, last) ==
  u32_geq(u32_sub(m, last), u32(0, READING_INTERVAL))

\* Time that passes between two calls of loop(): a cycle, or nothing much.
TimeSteps == {1, MaxStep, READING_INTERVAL - 1, READING_INTERVAL}

\* The clock when the first state is taken: the end of setup(), or a board
\* that has been running for weeks and has just begun a cycle, MaxWrapLead
\* milliseconds before the counter wraps.
BootMillis == {u32(0, TARE_DELAY), u32(Half - 1, Half - MaxWrapLead)}

InitTick ==
  /\ CycleIdle /\ SingleIdle /\ DualIdle
  /\ \E boot \in BootMillis :
       /\ millis = boot
       /\ lastReading = boot
       /\ previousReading = boot
  /\ now = 0
  /\ sinceStart = 0
  /\ gap = 0
  /\ cycles = 0

TimePasses ==
  /\ \E d \in TimeSteps :
       /\ now + d <= MaxElapsed
       /\ millis' = u32_add(millis, d)
       /\ now' = now + d
       /\ sinceStart' = sinceStart + d
  /\ UNCHANGED <<lastReading, previousReading, gap, cycles>>
  /\ UNCHANGED <<singleVars, cycleVars, dualVars>>

\* One call of loop().  The two calls of millis() may see different
\* values: between is the time between them.  The cycle itself
\* (handleTareButton, processScaleReading) is the machine of Spec; it
\* neither reads nor writes lastReading, and its duration is a TimePasses.
loop ==
  /\ IF intervalElapsed(millis, lastReading)
     THEN \E between \in {0, 1} :
            /\ now + between <= MaxElapsed
            /\ millis' = u32_add(millis, between)
            /\ lastReading' = u32_add(millis, between)
            /\ previousReading' = lastReading
            /\ now' = now + between
            /\ gap' = sinceStart + between
            /\ sinceStart' = 0
            /\ cycles' = 1
     ELSE /\ cycles' = 0
          /\ UNCHANGED <<millis, lastReading, previousReading, now, sinceStart, gap>>
  /\ UNCHANGED <<singleVars, cycleVars, dualVars>>

NextTick == TimePasses \/ loop

SpecTick == InitTick /\ [][NextTick]_vars

\* ------------------------------------------------- claims on SpecSingle
Returned == s_pc = "return"

\* C1: single-class soundness.  For every reading >= 0, unit weight > 0 and
\* tolerance multiplier >= 0, a count c reported as valid satisfies
\* |reading - c * unit_weight| <= tolerance_multiplier * c.
C1_SingleSound ==
  (Returned /\ s_in.reading >= 0 /\ s_out.valid) =>
    abs(s_in.reading - s_out.count_fabric * s_in.w) <= s_in.t * s_out.count_fabric

\* 145 against unit weight 70, multiplier 3: count 2, deviation 5 <= 6.
C1_Witness ==
  /\ Returned
  /\ s_in = [reading |-> 145, w |-> WEIGHT_OF_FABRIC_OBJ, t |-> EPSILON]
  /\ s_out = [valid |-> TRUE, count_fabric |-> 2]

\* C4: single-class result characterisation.  For every reading >= 0 the
\* count tested is c = floor((2*reading + w) / (2*w)), the nearest integer
\* with halves rounded up; the result is valid exactly when
\* |reading - c*w| <= t*c, and no neighbouring count is tried.
NearestCount(reading, w) == (2 * reading + w) \div (2 * w)

C4_SingleCharacterised ==
  (Returned /\ s_in.reading >= 0) =>
    LET c == NearestCount(s_in.reading, s_in.w)
    IN /\ s_out.count_fabric = c
       /\ s_out.valid <=> (abs(s_in.reading - c * s_in.w) <= s_in.t * c)

\* Reading 1, unit weight 4, multiplier 3: the nearest count 0 is rejected
\* although the neighbouring count 1 would pass (|1 - 4| <= 3).
C4_Witness ==
  /\ Returned
  /\ s_in = [reading |-> 1, w |-> 4, t |-> 3]
  /\ s_out = [valid |-> FALSE, count_fabric |-> 0]
  /\ abs(s_in.reading - 1 * s_in.w) <= s_in.t * 1

Searched == mz_pc = "button" /\ mz_ready /\ mz_reading \in 0..MaxDualReading
Within(m, n, reading) ==
  abs(m * WEIGHT_OF_FABRIC_OBJ + n * WEIGHT_OF_REUSED_OBJ - reading) <= EPSILON
\* No n beyond this can be within tolerance of reading.
ReusedLimit(reading) == (reading + EPSILON) \div WEIGHT_OF_REUSED_OBJ + 1
Reported == <<mz_search.count_fabric, mz_search.count_reused>>

\* C2: dual-class soundness and first-match tie-break.  For every
\* reading >= 0, reported counts (m, n) satisfy |m*w1 + n*w2 - reading| <=
\* tolerance, and no pair (m', n') with m' < m, or m' = m and n' < n, does.
C2_DualSoundFirst ==
  (Searched /\ mz_search.found) =>
    /\ Within(Reported[1], Reported[2], mz_reading)
    /\ \A m \in 0..Reported[1], n \in 0..ReusedLimit(mz_reading) :
         (m < Reported[1] \/ (m = Reported[1] /\ n < Reported[2]))
           => ~Within(m, n, mz_reading)

\* 422 is within tolerance of 5 reused (425) and of 6 factory (420) items;
\* the search reports the pair with fewer factory items.
C2_Witness ==
  /\ Searched
  /\ mz_reading = 422
  /\ mz_search.found
  /\ Reported = <<0, 5>>
  /\ Within(6, 0, mz_reading)

\* Pairs within tolerance inside the bounds m <= reading/w1 and
\* n <= (reading - m*w1 + slack)/w2, and the first of them in the nested
\* ascending order.
BoundedPairs(reading, slack) ==
  {p \in (0..(reading \div WEIGHT_OF_FABRIC_OBJ)) \X (0..ReusedLimit(reading)) :
     /\ p[2] <= (reading - p[1] * WEIGHT_OF_FABRIC_OBJ + slack)
                  \div WEIGHT_OF_REUSED_OBJ
     /\ Within(p[1], p[2], reading)}
FirstPair(P) ==
  CHOOSE p \in P : \A q \in P : p[1] < q[1] \/ (p[1] = q[1] /\ p[2] <= q[2])
SameOutcome(P) ==
  IF P = {} THEN ~mz_search.found
  ELSE mz_search.found /\ Reported = FirstPair(P)

\* C3 as stated: the search gives the outcome of the nested ascending
\* search over m in 0..reading/w1, n in 0..(reading - m*w1)/w2.
C3_AsStated == Searched => SameOutcome(BoundedPairs(mz_reading, 0))

\* C3: dual-class search bounds.  For every reading >= 0 the search gives
\* the outcome of the nested ascending search over m in 0..reading/w1 and,
\* for each m, n in 0..(reading - m*w1 + tolerance)/w2: it reports the first
\* pair within tolerance inside these bounds, and no match exactly when
\* there is none.
C3_DualBounds == Searched => SameOutcome(BoundedPairs(mz_reading, EPSILON))

\* 84 is one reused item (85) within tolerance, although (84 - 0)/85 = 0.
C3_Witness ==
  /\ Searched
  /\ mz_reading = 84
  /\ mz_search.found
  /\ Reported = <<0, 1>>
  /\ BoundedPairs(mz_reading, 0) = {}

\* The scenario's tick: reading 1000000 taken and searched.
ScenarioSearched == mz_pc = "button" /\ mz_ready /\ mz_reading = 1000000

\* C6 as stated: the search with reading 1000000, unit weights 70 and 85
\* and tolerance 3 finds no combination.
C6_AsStated == ScenarioSearched => ~mz_search.found

\* C6: the search with reading 1000000, unit weights 70 and 85 and
\* tolerance 3 reports 13 factory and 11754 reused items, an exact match
\* (13*70 + 11754*85 = 1000000).
C6_ScenarioResolved ==
  ScenarioSearched => (mz_search.found /\ Reported = <<13, 11754>>)

C6_Witness ==
  /\ ScenarioSearched
  /\ mz_search.found
  /\ Reported[1] * WEIGHT_OF_FABRIC_OBJ + Reported[2] * WEIGHT_OF_REUSED_OBJ
       = mz_reading

\* ------------------------------------------------------- claims on Spec
\* A tick is complete when control is back at the top of loop().
TickDone == pc = "handleTareButton"
Resolves(reading) ==
  calculateFabricObjectCount(reading, WEIGHT_OF_FABRIC_OBJ, EPSILON).valid
CountOf(reading) ==
  calculateFabricObjectCount(reading, WEIGHT_OF_FABRIC_OBJ, EPSILON).count_fabric

\* C7: exactly one retry.  No cycle takes more than two readings; in a
\* cycle with the scale ready and a non-negative first reading, a second
\* reading is taken exactly when the first one is Unresolved, and it is the
\* second (fresh) sample that is resolved and decides the outcome.
C7_ExactlyOneRetry ==
  /\ Len(samples) <= 2
  /\ (TickDone /\ Len(samples) >= 1 /\ samples[1] >= 0) =>
       /\ (Len(samples) = 2) <=> ~Resolves(samples[1])
       /\ resolved = samples
       /\ (Len(samples) = 2) =>
            ((outcome = "Accepted") <=> Resolves(samples[2]))

\* First sample 34 is Unresolved, the fresh sample 70 resolves.
C7_Witness ==
  /\ TickDone
  /\ samples = <<34, 70>>
  /\ resolved = <<34, 70>>
  /\ outcome = "Accepted"

\* C8 as stated: a Confirmed Failure sets isBuzzerOn, and the flag is
\* cleared only by a cycle ending Accepted or by the manual tare.
C8_AsStated ==
  [][ /\ (outcome' = "ConfirmedFailure" /\ pc = "processScaleReading") => isBuzzerOn'
      /\ (isBuzzerOn /\ ~isBuzzerOn') =>
           \/ (pc = "processScaleReading" /\ outcome' = "Accepted")
           \/ (pc = "handleTareButton" /\ "manual" \in tares') ]_vars

\* C8: sticky escalation.  A Confirmed Failure sets isBuzzerOn; the flag
\* then stays set until a cycle ends Accepted, a cycle aborts on a negative
\* first reading (automatic tare), or the manual tare is handled.  A
\* not-ready scale and a repeated Confirmed Failure leave it set.
C8_Sticky ==
  [][ /\ (outcome' = "ConfirmedFailure" /\ pc = "processScaleReading") => isBuzzerOn'
      /\ (isBuzzerOn /\ ~isBuzzerOn') =>
           \/ (pc = "processScaleReading" /\ outcome' = "Accepted")
           \/ (pc = "processScaleReading" /\ outcome' = "NegativeReading")
           \/ (pc = "handleTareButton" /\ "manual" \in tares') ]_vars

\* The flag set by an earlier failure has survived a not-ready tick.
C8_Witness ==
  /\ TickDone
  /\ outcome = "Unavailable"
  /\ tickStartFlag
  /\ isBuzzerOn

\* C9 as stated: a cycle in which any reading, first or retry, is negative
\* ends in the automatic tare, shows no error and leaves the buzzer off.
C9_AsStated ==
  (TickDone /\ \E i \in DOMAIN samples : samples[i] < 0) =>
    /\ outcome = "NegativeReading"
    /\ "auto" \in tares
    /\ lcd.kind # "error"
    /\ ~isBuzzerOn

\* C10: retry acceptance.  When the first reading is Unresolved and the
\* second resolves to c, the cycle ends Accepted, the display shows c and
\* isBuzzerOn is false, whatever the flag was before.
C10_RetryAccepted ==
  (TickDone /\ Len(samples) = 2 /\ ~Resolves(samples[1]) /\ Resolves(samples[2])) =>
    /\ outcome = "Accepted"
    /\ lcd = [kind |-> "count", count |-> CountOf(samples[2])]
    /\ ~isBuzzerOn

\* The buzzer was on when the tick began, no manual tare; 100 is Unresolved
\* (nearest count 1), 145 resolves to 2.
C10_Witness ==
  /\ TickDone
  /\ tickStartFlag
  /\ tares = {}
  /\ samples = <<100, 145>>
  /\ outcome = "Accepted"
  /\ lcd = [kind |-> "count", count |-> 2]
  /\ ~isBuzzerOn

\* C11: Unavailable leaves everything unchanged.  When the scale is not
\* ready at the start of processScaleReading, no reading is taken, nothing
\* is resolved, and the display and isBuzzerOn (with the buzzer pin) are
\* what they were when processScaleReading was entered.
C11_UnavailableUnchanged ==
  [][ (pc = "processScaleReading" /\ outcome' = "Unavailable") =>
        /\ samples' = <<>>
        /\ resolved' = <<>>
        /\ lcd' = lcd
        /\ isBuzzerOn' = isBuzzerOn
        /\ buzzerTone' = buzzerTone
        /\ pinCall' = "none"
        /\ tares' = tares ]_vars

\* A not-ready tick that found the error on the display and the buzzer on.
C11_Witness ==
  /\ TickDone
  /\ outcome = "Unavailable"
  /\ samples = <<>>
  /\ lcd.kind = "error"
  /\ isBuzzerOn
  /\ tares = {}

\* ---------------------------------------------------- claims on SpecBoth
\* C12: displayed counts are never negative.  In the single-class sketch
\* and in the dual-class sketch every count written to the display is >= 0,
\* whatever the scale returns at the first or at the verification sample.
C12_CountsNonNegative ==
  /\ (lcd.kind = "count") => lcd.count >= 0
  /\ mz_wrote => (mz_search.count_fabric >= 0 /\ mz_search.count_reused >= 0)
  /\ \A i \in DOMAIN mz_lcd.factory : mz_lcd.factory[i] >= 0
  /\ \A i \in DOMAIN mz_lcd.reused : mz_lcd.reused[i] >= 0

\* The dual-class sketch prints counts for the negative reading -2: 0 and 0.
C12_Witness ==
  /\ mz_pc = "button"
  /\ mz_ready
  /\ mz_reading = 0 - 2
  /\ mz_wrote
  /\ mz_search.count_fabric = 0
  /\ mz_search.count_reused = 0
  /\ mz_lcd.factory = <<0>>

\* ------------------------------------------- further claims on SpecDual
\* The tick has taken a reading and finished.
MzTickRead == mz_pc = "button" /\ mz_ready

\* C13 as stated: in the dual-class sketch a negative reading triggers
\* re-zeroing and not resolution: the search yields no result and no
\* Factory/Reused counts are written to the display in that cycle.
C13_AsStated ==
  (MzTickRead /\ mz_reading < 0) =>
    /\ "auto" \in mz_tares
    /\ ~mz_search.found
    /\ ~mz_wrote

\* ----------------------------------------------- further claims on Spec
\* C14 as stated: in a tick where the tare button is observed pressed the
\* cycle ends in Idle: no reading is resolved, neither a count nor an error
\* indication is emitted and the buzzer is not activated in that tick.
C14_AsStated ==
  (TickDone /\ "manual" \in tares) =>
    /\ resolved = <<>>
    /\ lcd.kind = "clear"
    /\ ~isBuzzerOn

\* C14: manual zero precedes the cycle.  In a tick where the tare button
\* is observed pressed, handleTareButton tares, clears the display and
\* deactivates the buzzer before any reading is taken; it does not end the
\* tick: processScaleReading then runs as in any other tick, so a count is
\* shown exactly when that cycle ends Accepted, the error is shown and the
\* buzzer is on exactly when it ends in Confirmed Failure, and a not-ready
\* scale leaves the display cleared and the buzzer off.
C14_ManualZeroThenCycle ==
  ("manual" \in tares) =>
    /\ (pc = "processScaleReading") =>
         /\ lcd = LcdClear
         /\ ~isBuzzerOn /\ ~buzzerTone
         /\ samples = <<>> /\ resolved = <<>> /\ outcome = "Idle"
    /\ TickDone =>
         /\ outcome # "Idle"
         /\ (lcd.kind = "count") <=> (outcome = "Accepted")
         /\ (lcd.kind = "error") <=> (outcome = "ConfirmedFailure")
         /\ isBuzzerOn <=> (outcome = "ConfirmedFailure")
         /\ (outcome = "Unavailable") => (lcd = LcdClear /\ samples = <<>>)

\* Button pressed, then both readings of the same tick Unresolved: the
\* error is displayed and the buzzer sounds.
C14_Witness ==
  /\ TickDone
  /\ "manual" \in tares
  /\ Len(resolved) = 2
  /\ outcome = "ConfirmedFailure"
  /\ lcd.kind = "error"
  /\ isBuzzerOn


\* C15: buzzer consistency.  After every step the buzzer pin sounds exactly
\* when isBuzzerOn is true; a step calls tone() only from a state where
\* the flag was false and noTone() only from a state where it was true, so
\* activating an active buzzer or deactivating a silent one does nothing.
C15_BuzzerConsistent ==
  [][ /\ buzzerTone <=> isBuzzerOn
      /\ buzzerTone' <=> isBuzzerOn'
      /\ (pinCall' = "tone") => (~isBuzzerOn /\ isBuzzerOn')
      /\ (pinCall' = "noTone") => (isBuzzerOn /\ ~isBuzzerOn')
      /\ (pinCall' = "none") => (isBuzzerOn' = isBuzzerOn)
    ]_vars

\* A tick that starts with the buzzer on and ends in Confirmed Failure
\* again: activateBuzzer found the flag set and made no pin call.
C15_Witness ==
  /\ TickDone
  /\ tickStartFlag
  /\ tares = {}
  /\ outcome = "ConfirmedFailure"
  /\ pinCall = "none"
  /\ isBuzzerOn /\ buzzerTone

\* C16: at the end of a tick in which the scale was ready, isBuzzerOn is
\* true exactly when the cycle ended in Confirmed Failure; ending Accepted
\* or Negative Reading leaves it false whatever it was before.
C16_FlagIffConfirmedFailure ==
  (TickDone /\ outcome \in {"Accepted", "NegativeReading", "ConfirmedFailure"}) =>
    /\ isBuzzerOn <=> (outcome = "ConfirmedFailure")
    /\ buzzerTone <=> (outcome = "ConfirmedFailure")

\* The buzzer was on when the tick started, no button was pressed, and the
\* negative first reading switched it off.
C16_Witness ==
  /\ TickDone
  /\ tickStartFlag
  /\ tares = {"auto"}
  /\ outcome = "NegativeReading"
  /\ ~isBuzzerOn


\* C18: the dual-class search terminates.  For every reading, negative
\* ones included, the outer loop runs at most max(0, reading / w1) + 1
\* times and the inner loop at most 2 * EPSILON + 1 times per outer
\* iteration, and the search ends either at its first match or, with every
\* candidate checked, with no match and both counts still -1.
C18_SearchTerminates ==
  MzTickRead =>
    LET limit == c_div(mz_reading, WEIGHT_OF_FABRIC_OBJ)
    IN /\ mz_search.outer >= 0 /\ mz_search.inner >= 0
       /\ mz_search.outer <= max(0, limit) + 1
       /\ mz_search.inner <= 2 * EPSILON + 1
       /\ mz_search.found =>
            /\ mz_search.outer = mz_search.count_fabric + 1
            /\ mz_search.outer >= 1 /\ mz_search.inner >= 1
       /\ ~mz_search.found =>
            /\ mz_search.outer = max(0, limit + 1)
            /\ mz_search.count_fabric = 0 - 1
            /\ mz_search.count_reused = 0 - 1
            /\ mz_search.outer >= 1 => mz_search.inner = 2 * EPSILON + 1

\* Reading -50 after the re-zeroing: -50 / 70 is 0 in C, so the outer loop
\* runs once, its seven candidates are all negative, no match.
C18_Witness ==
  /\ MzTickRead
  /\ mz_reading = 0 - 50
  /\ "auto" \in mz_tares
  /\ ~mz_search.found
  /\ mz_search.outer = 1
  /\ mz_search.inner = 7


\* C19 as stated: in a tick whose search finds no combination nothing is
\* written to the display and what the tick found on it stays unchanged.
C19_AsStated ==
  (MzTickRead /\ ~mz_search.found) =>
    /\ ~mz_wrote
    /\ mz_lcd = mz_lcdStart

\* C19: dual-class sketch on no match.  A search that finds no combination
\* prints nothing; the display is left as the earlier statements of the
\* same tick left it: cleared when the tare button was pressed or the
\* reading was negative, otherwise exactly what the tick found on it.
C19_NoMatchPrintsNothing ==
  (MzTickRead /\ ~mz_search.found) =>
    /\ ~mz_wrote
    /\ mz_search.count_fabric = 0 - 1 /\ mz_search.count_reused = 0 - 1
    /\ mz_lcd = (IF mz_tares # {} THEN MzLcdClear ELSE mz_lcdStart)
    /\ ("auto" \in mz_tares) <=> (mz_reading < 0)

\* Counts of an earlier tick are on the display, no button, a non-negative
\* reading without a match: they are still there.
C19_Witness ==
  /\ MzTickRead
  /\ ~mz_search.found
  /\ mz_reading >= 0
  /\ mz_tares = {}
  /\ mz_lcdStart.factory # <<>>
  /\ mz_lcd = mz_lcdStart


\* ---------------------------------------------------- claims on SpecTick
Elapsed(m, last) ==
  LET difference == u32_sub(m, last)
  IN difference.hi > 0 \/ difference.lo >= READING_INTERVAL

\* C17: tick gating with wrap-around.  loop starts a cycle only when
\* (millis - lastReading) modulo 2^32 is at least READING_INTERVAL, and
\* then records the start in lastReading; a call of loop starts at most one
\* cycle; whenever the gate is open at least READING_INTERVAL milliseconds
\* have really passed since the last start, so two consecutive starts are
\* at least READING_INTERVAL milliseconds apart, also when the counter
\* wraps from 2^32 - 1 to 0 between them.
C17_TickGating ==
  [][ /\ Elapsed(millis, lastReading) => sinceStart >= READING_INTERVAL
      /\ cycles' \in {0, 1}
      /\ (lastReading' # lastReading \/ gap' # gap) =>
           /\ Elapsed(millis, lastReading)
           /\ cycles' = 1
           /\ lastReading' = millis'
           /\ ~Elapsed(millis', lastReading')
           /\ gap' >= READING_INTERVAL
           /\ u32_sub(lastReading', lastReading) = u32(0, gap')
    ]_vars

\* Two consecutive starts with the wrap between them: the earlier one
\* recorded just below 2^32, the later one just above 0.
C17_Witness ==
  /\ cycles = 1
  /\ previousReading.hi = Half - 1
  /\ lastReading.hi = 0
  /\ lastReading.lo < READING_INTERVAL
  /\ millis = lastReading
  /\ gap >= READING_INTERVAL

=============================================================================
